---- MODULE Spec2Model ----
(***************************************************************************)
(* pyqir-generator, src/pyqir-generator/src/python.rs: the Python binding  *)
(* of the QIR builder.  A SimpleModule owns one Builder object on the      *)
(* Python heap (a PyCell with a run-time borrow flag) that holds the       *)
(* SemanticModel; BasicQisBuilder objects hold further handles to the same *)
(* Builder and append instructions to its model.                           *)
(*                                                                         *)
(* Every method body runs inside Python::with_gil and never releases the   *)
(* GIL, so one call is one atomic step: borrow, act, drop the borrow.      *)
(***************************************************************************)
EXTENDS Integers, Sequences, FiniteSets, TLC

VARIABLES
    modules,  \* SimpleModule objects: constructed slot -> [builder |-> handle]
    qis,      \* BasicQisBuilder objects: constructed slot -> [builder |-> handle]
    heap,     \* Py<Builder> targets: allocated object id -> [model |-> SemanticModel]
    flag,     \* the PyCell borrow flag of each heap object
    ret,      \* what the last call returned to Python
    params,   \* history: the arguments each SimpleModule was constructed with
    origin,   \* history: the module each BasicQisBuilder took its handle from
    log,      \* history: the successful append calls, in global call order
    lastIr    \* history: per module, what ir() last returned since the last append

vars == <<modules, qis, heap, flag, ret, params, origin, log, lastIr>>

(* ------------------------------ bounds -------------------------------- *)

ModIds == {1, 2}          \* SimpleModule slots of the calling program
QisIds == {1, 2}          \* BasicQisBuilder slots of the calling program
Names == {"bell", "ghz"}  \* module names passed to SimpleModule(...)
Angles == {"0.5", "NaN"}  \* f64 rotation angles, by their printed form
MaxObjects == 4           \* capacity of the modelled Python heap
MaxQubits == 2            \* largest num_qubits passed to SimpleModule(...)
MaxResults == 2           \* largest num_results passed to SimpleModule(...)
MaxExtra == 1             \* most appends of a run after its bell-program prefix

ObjIds == 1..MaxObjects

(* ----------------------------- constants ------------------------------ *)

RESULT_NAME == "result"
QUBIT_NAME == "qubit"

\* pyo3's BorrowFlag: 0 is unused, n > 0 is n shared borrows, -1 is the
\* exclusive borrow.
UNUSED == 0
HAS_MUTABLE_BORROW == -1

(* ------------------------ references and ids -------------------------- *)

\* struct Qubit { index }
Qubit(i) == [index |-> i]

\* struct Ref(RefKind), enum RefKind { Result { index } }
Ref(i) == [kind |-> "Result", index |-> i]

\* format!("{}{}", QUBIT_NAME, self.index)
Qubit_id(qubit) == QUBIT_NAME \o ToString(qubit.index)

\* format!("{}{}", RESULT_NAME, index)
Ref_id(result) == RESULT_NAME \o ToString(result.index)

(* --------------------------- interop types ---------------------------- *)

ClassicalRegister_new(name, size) == [name |-> name, size |-> size]

QuantumRegister_new(name, index) == [name |-> name, index |-> index]

Single_new(qubit) == [qubit |-> qubit]

Controlled_new(control, target) == [control |-> control, target |-> target]

Rotated_new(theta, qubit) == [theta |-> theta, qubit |-> qubit]

Measured_new(qubit, target) == [qubit |-> qubit, target |-> target]

Instruction(tag, inst) == [tag |-> tag, inst |-> inst]

\* SemanticModel::add_inst: push onto the instruction vector.
SemanticModel_add_inst(model, inst) ==
    [model EXCEPT !.instructions = Append(@, inst)]

(* ----------------------------- emission ------------------------------- *)

\* The identifiers a model declares: one per qubit, one per result slot.
Declared(model) ==
    {model.qubits[k].name \o ToString(model.qubits[k].index) :
        k \in 1..Len(model.qubits)}
    \cup UNION {{model.registers[k].name \o ToString(i) :
                    i \in 0..(model.registers[k].size - 1)} :
                k \in 1..Len(model.registers)}

Operands(inst) ==
    CASE inst.tag \in {"Cx", "Cz"} -> {inst.inst.control, inst.inst.target}
      [] inst.tag = "M" -> {inst.inst.qubit, inst.inst.target}
      [] OTHER -> {inst.inst.qubit}

Lower(inst) ==
    CASE inst.tag \in {"Cx", "Cz"} ->
            <<inst.tag, inst.inst.control, inst.inst.target>>
      [] inst.tag = "M" -> <<inst.tag, inst.inst.qubit, inst.inst.target>>
      [] inst.tag \in {"Rx", "Ry", "Rz"} ->
            <<inst.tag, inst.inst.theta, inst.inst.qubit>>
      [] OTHER -> <<inst.tag, inst.inst.qubit>>

\* emit::get_ir_string: Result<String, String>.  Header, one declaration per
\* slot in allocation order, one lowered operation per instruction in
\* sequence order; an undeclared operand fails the whole call.
get_ir_string(model) ==
    IF \E k \in 1..Len(model.instructions) :
            ~(Operands(model.instructions[k]) \subseteq Declared(model))
    THEN [ok |-> FALSE, err |-> "EmissionError"]
    ELSE [ok |-> TRUE,
          text |-> <<<<"module", model.name>>>>
                \o [k \in 1..Len(model.qubits) |->
                        <<"declare", model.qubits[k].name
                                     \o ToString(model.qubits[k].index)>>]
                \o [i \in 1..model.registers[1].size |->
                        <<"declare", model.registers[1].name
                                     \o ToString(i - 1)>>]
                \o [k \in 1..Len(model.instructions) |->
                        Lower(model.instructions[k])]]

(* ------------------------------ PyCell -------------------------------- *)

\* Py::new: the next free object of the heap.
Py_new == CHOOSE o \in ObjIds \ DOMAIN heap : \A p \in ObjIds \ DOMAIN heap : o <= p

\* PyCell::try_borrow succeeds unless the cell is exclusively borrowed.
try_borrow_ok(f) == f # HAS_MUTABLE_BORROW

\* PyCell::try_borrow_mut succeeds only on an unused cell.
try_borrow_mut_ok(f) == f = UNUSED

\* The guards taken by a successful borrow, and their Drop at scope end.
PyRef_new(f) == f + 1

\* Faulty variant: the shared borrow is never given back.
PyRef_leak(f) == f

PyRef_drop(f) == f - 1

PyRefMut_new(f) == HAS_MUTABLE_BORROW

PyRefMut_drop(f) == UNUSED

(* ---------------------------- return values --------------------------- *)

\* What a call on the object in slot self returned: a value, a Python
\* exception, or a Rust panic unwinding out of the method body.
Ok(op, self, value) ==
    [op |-> op, self |-> self, kind |-> "Ok", exc |-> "", value |-> value]

Err(op, self, exc, msg) ==
    [op |-> op, self |-> self, kind |-> "Err", exc |-> exc, value |-> msg]

Panic(op, self) ==
    [op |-> op, self |-> self, kind |-> "Panic", exc |-> "PanicException",
     value |-> "not yet implemented"]

(* ---------------------------- SimpleModule ---------------------------- *)

SimpleModule_model(name, num_qubits, num_results) ==
    [name |-> name,
     registers |-> <<ClassicalRegister_new(RESULT_NAME, num_results)>>,
     qubits |-> [k \in 1..num_qubits |-> QuantumRegister_new(QUBIT_NAME, k - 1)],
     instructions |-> <<>>]

SimpleModule_new(m, name, num_qubits, num_results) ==
    /\ m \notin DOMAIN modules
    /\ ObjIds \ DOMAIN heap # {}
    /\ LET o == Py_new IN
        /\ heap' = heap @@
                (o :> [model |-> SimpleModule_model(name, num_qubits, num_results)])
        /\ flag' = flag @@ (o :> UNUSED)
        /\ modules' = modules @@ (m :> [builder |-> o])
        /\ params' = params @@ (m :>
                [name |-> name, num_qubits |-> num_qubits, num_results |-> num_results])
        /\ ret' = Ok("new", m, "SimpleModule")
    /\ UNCHANGED <<qis, origin, log, lastIr>>

qubits_value(model) ==
    [k \in 1..Len(model.qubits) |-> Qubit(model.qubits[k].index)]

\* Faulty variant: the result indices counted from one.
results_value_from_one(model) ==
    [k \in 1..model.registers[1].size |-> Ref(k)]

results_value(model) ==
    [k \in 1..model.registers[1].size |-> Ref(k - 1)]

\* Each read method: try_borrow()?, compute the value from the model, drop
\* the PyRef at the end of the closure.
SimpleModule_qubits(m) ==
    /\ m \in DOMAIN modules
    /\ LET o == modules[m].builder IN
        IF try_borrow_ok(flag[o])
        THEN /\ ret' = Ok("qubits", m, qubits_value(heap[o].model))
             /\ flag' = [flag EXCEPT ![o] = PyRef_drop(PyRef_new(@))]
        ELSE /\ ret' = Err("qubits", m, "PyBorrowError", "Already mutably borrowed")
             /\ UNCHANGED flag
    /\ UNCHANGED <<modules, qis, heap, params, origin, log, lastIr>>

SimpleModule_results(m) ==
    /\ m \in DOMAIN modules
    /\ LET o == modules[m].builder IN
        IF try_borrow_ok(flag[o])
        THEN /\ ret' = Ok("results", m, results_value(heap[o].model))
             /\ flag' = [flag EXCEPT ![o] = PyRef_drop(PyRef_new(@))]
        ELSE /\ ret' = Err("results", m, "PyBorrowError", "Already mutably borrowed")
             /\ UNCHANGED flag
    /\ UNCHANGED <<modules, qis, heap, params, origin, log, lastIr>>

\* get_ir_string(&builder.model).map_err(PyOSError::new_err)
ir_value(m, model) ==
    LET r == get_ir_string(model) IN
    IF r.ok THEN Ok("ir", m, r.text) ELSE Err("ir", m, "PyOSError", r.err)

\* Faulty variant: emission takes the instructions out of the model.
SimpleModule_ir_taking(m) ==
    /\ m \in DOMAIN modules
    /\ LET o == modules[m].builder IN
        /\ try_borrow_ok(flag[o])
        /\ ret' = ir_value(m, heap[o].model)
        /\ heap' = [heap EXCEPT ![o] = [@ EXCEPT !.model.instructions = <<>>]]
    /\ lastIr' = [n \in DOMAIN lastIr \cup {m} |-> IF n = m THEN ret' ELSE lastIr[n]]
    /\ UNCHANGED <<modules, qis, flag, params, origin, log>>

SimpleModule_ir(m) ==
    /\ m \in DOMAIN modules
    /\ LET o == modules[m].builder IN
        IF try_borrow_ok(flag[o])
        THEN /\ ret' = ir_value(m, heap[o].model)
             /\ flag' = [flag EXCEPT ![o] = PyRef_drop(PyRef_new(@))]
        ELSE /\ ret' = Err("ir", m, "PyBorrowError", "Already mutably borrowed")
             /\ UNCHANGED flag
    /\ lastIr' = [n \in DOMAIN lastIr \cup {m} |-> IF n = m THEN ret' ELSE lastIr[n]]
    /\ UNCHANGED <<modules, qis, heap, params, origin, log>>

\* fn bitcode(&self) -> &[u8] { todo!() }
SimpleModule_bitcode(m) ==
    /\ m \in DOMAIN modules
    /\ ret' = Panic("bitcode", m)
    /\ UNCHANGED <<modules, qis, heap, flag, params, origin, log, lastIr>>

(* --------------------------- BasicQisBuilder -------------------------- *)

\* SimpleModule::builder: a clone of the Py<Builder> handle.
SimpleModule_builder(m) == modules[m].builder

\* Faulty variant: the builder gets a Builder object of its own, holding a copy of
\* the module's model.
BasicQisBuilder_new_copy(b, m) ==
    /\ b \notin DOMAIN qis
    /\ m \in DOMAIN modules
    /\ ObjIds \ DOMAIN heap # {}
    /\ LET o == Py_new IN
        /\ heap' = heap @@ (o :> heap[modules[m].builder])
        /\ flag' = flag @@ (o :> UNUSED)
        /\ qis' = qis @@ (b :> [builder |-> o])
    /\ origin' = origin @@ (b :> m)
    /\ ret' = Ok("new", b, "BasicQisBuilder")
    /\ UNCHANGED <<modules, params, log, lastIr>>

\* Python: BasicQisBuilder(module.builder)
BasicQisBuilder_new(b, m) ==
    /\ b \notin DOMAIN qis
    /\ m \in DOMAIN modules
    /\ qis' = qis @@ (b :> [builder |-> SimpleModule_builder(m)])
    /\ origin' = origin @@ (b :> m)
    /\ ret' = Ok("new", b, "BasicQisBuilder")
    /\ UNCHANGED <<modules, heap, flag, params, log, lastIr>>

\* The modules whose handle is the object o.
Owners(o) == {m \in DOMAIN modules : modules[m].builder = o}

Call1(op, qubit) == [op |-> op, qubit |-> qubit]

Call2(op, control, target) == [op |-> op, control |-> control, target |-> target]

CallR(op, theta, qubit) == [op |-> op, theta |-> theta, qubit |-> qubit]

CallM(op, qubit, result) == [op |-> op, qubit |-> qubit, result |-> result]

\* Qubit and Ref objects cannot be constructed from Python; the program
\* holds those some module's qubits / results accessor hands out.
HeldQubit(qubit) ==
    \E o \in DOMAIN heap : qubit.index < Len(heap[o].model.qubits)

HeldResult(result) ==
    \E o \in DOMAIN heap : result.index < heap[o].model.registers[1].size

\* Every reference a program within the bounds can come to hold.
QubitRefs == {Qubit(i) : i \in 0..(MaxQubits - 1)}

ResultRefs == {Ref(i) : i \in 0..(MaxResults - 1)}

QubitsOf(call) ==
    CASE call.op \in {"cx", "cz"} -> {call.control, call.target}
      [] OTHER -> {call.qubit}

ResultsOf(call) == IF call.op \in {"m", "if_result"} THEN {call.result} ELSE {}

\* The program of the "bell" scenario: 2 qubits, 2 results, then four calls.
BellProgram ==
    <<Call1("h", Qubit(0)), Call2("cx", Qubit(0), Qubit(1)),
      CallM("m", Qubit(0), Ref(0)), CallM("m", Qubit(1), Ref(1))>>

\* How many leading calls of the run follow the bell program, counted from
\* the k-th on.
RECURSIVE BellPrefix(_)
BellPrefix(k) ==
    IF k <= Len(BellProgram) /\ k <= Len(log) /\ log[k].call = BellProgram[k]
    THEN BellPrefix(k + 1)
    ELSE k - 1

\* The calling program runs some prefix of the bell program and makes at
\* most MaxExtra appends after it.
InBudget(call) ==
    LET n == BellPrefix(1) IN
    \/ Len(log) - n < MaxExtra
    \/ /\ n = Len(log)
       /\ n < Len(BellProgram)
       /\ call = BellProgram[n + 1]

\* Whether the budget leaves room for any append at all.
CanAppend ==
    LET n == BellPrefix(1) IN
    \/ Len(log) - n < MaxExtra
    \/ n = Len(log) /\ n < Len(BellProgram)

\* The branch bodies the program passes to if_result.
Bodies ==
    {[one |-> <<>>, zero |-> <<>>], [one |-> <<Call1("x", Qubit(0))>>, zero |-> <<>>]}

\* The calls the program can make: with references it holds, within budget.
CanCall(call) ==
    /\ InBudget(call)
    /\ \A qubit \in QubitsOf(call) : HeldQubit(qubit)
    /\ \A result \in ResultsOf(call) : HeldResult(result)

\* Faulty variant: the instruction vector is assigned instead of pushed to.
add_inst_assign(b, call, inst) ==
    /\ b \in DOMAIN qis
    /\ CanCall(call)
    /\ LET o == qis[b].builder IN
        /\ try_borrow_mut_ok(flag[o])
        /\ heap' = [heap EXCEPT ![o] = [@ EXCEPT !.model.instructions = <<inst>>]]
        /\ ret' = Ok(call.op, b, "()")
        /\ log' = Append(log, [qis |-> b, obj |-> o, call |-> call])
        /\ lastIr' = [m \in DOMAIN lastIr \ Owners(o) |-> lastIr[m]]
    /\ UNCHANGED <<modules, qis, flag, params, origin>>

add_inst(b, call, inst) ==
    /\ b \in DOMAIN qis
    /\ CanCall(call)
    /\ LET o == qis[b].builder IN
        IF try_borrow_mut_ok(flag[o])
        THEN /\ heap' = [heap EXCEPT
                    ![o] = [@ EXCEPT !.model = SemanticModel_add_inst(@, inst)]]
             /\ flag' = [flag EXCEPT ![o] = PyRefMut_drop(PyRefMut_new(@))]
             /\ ret' = Ok(call.op, b, "()")
             /\ log' = Append(log, [qis |-> b, obj |-> o, call |-> call])
             /\ lastIr' = [m \in DOMAIN lastIr \ Owners(o) |-> lastIr[m]]
        ELSE /\ ret' = Err(call.op, b, "PyBorrowMutError", "Already borrowed")
             /\ UNCHANGED <<heap, flag, log, lastIr>>
    /\ UNCHANGED <<modules, qis, params, origin>>

\* Faulty variant: control and target change places.
cx_swapped(b, control, target) ==
    add_inst(b, Call2("cx", control, target),
             Instruction("Cx", Controlled_new(Qubit_id(target), Qubit_id(control))))

cx(b, control, target) ==
    add_inst(b, Call2("cx", control, target),
             Instruction("Cx", Controlled_new(Qubit_id(control), Qubit_id(target))))

cz(b, control, target) ==
    add_inst(b, Call2("cz", control, target),
             Instruction("Cz", Controlled_new(Qubit_id(control), Qubit_id(target))))

h(b, qubit) ==
    add_inst(b, Call1("h", qubit), Instruction("H", Single_new(Qubit_id(qubit))))

m_(b, qubit, result) ==
    add_inst(b, CallM("m", qubit, result),
             Instruction("M", Measured_new(Qubit_id(qubit), Ref_id(result))))

reset(b, qubit) ==
    add_inst(b, Call1("reset", qubit), Instruction("Reset", Single_new(Qubit_id(qubit))))

rx(b, theta, qubit) ==
    add_inst(b, CallR("rx", theta, qubit),
             Instruction("Rx", Rotated_new(theta, Qubit_id(qubit))))

ry(b, theta, qubit) ==
    add_inst(b, CallR("ry", theta, qubit),
             Instruction("Ry", Rotated_new(theta, Qubit_id(qubit))))

rz(b, theta, qubit) ==
    add_inst(b, CallR("rz", theta, qubit),
             Instruction("Rz", Rotated_new(theta, Qubit_id(qubit))))

s(b, qubit) ==
    add_inst(b, Call1("s", qubit), Instruction("S", Single_new(Qubit_id(qubit))))

s_adj(b, qubit) ==
    add_inst(b, Call1("s_adj", qubit), Instruction("SAdj", Single_new(Qubit_id(qubit))))

t(b, qubit) ==
    add_inst(b, Call1("t", qubit), Instruction("T", Single_new(Qubit_id(qubit))))

t_adj(b, qubit) ==
    add_inst(b, Call1("t_adj", qubit), Instruction("TAdj", Single_new(Qubit_id(qubit))))

x(b, qubit) ==
    add_inst(b, Call1("x", qubit), Instruction("X", Single_new(Qubit_id(qubit))))

y(b, qubit) ==
    add_inst(b, Call1("y", qubit), Instruction("Y", Single_new(Qubit_id(qubit))))

z(b, qubit) ==
    add_inst(b, Call1("z", qubit), Instruction("Z", Single_new(Qubit_id(qubit))))

\* fn if_result(&self, result: &Ref, one: &PyAny, zero: &PyAny) { todo!() }
if_result(b, result, one, zero) ==
    /\ b \in DOMAIN qis
    /\ HeldResult(result)
    /\ ret' = Panic("if_result", b)
    /\ UNCHANGED <<modules, qis, heap, flag, params, origin, log, lastIr>>

(* ----------------------- the calling program -------------------------- *)

Init ==
    /\ modules = <<>>
    /\ qis = <<>>
    /\ heap = <<>>
    /\ flag = <<>>
    /\ ret = Ok("start", 0, "()")
    /\ params = <<>>
    /\ origin = <<>>
    /\ log = <<>>
    /\ lastIr = <<>>

Reads(M) ==
    \E m \in M :
        \/ SimpleModule_qubits(m)
        \/ SimpleModule_results(m)
        \/ SimpleModule_ir(m)

Stubs(M, B) ==
    \/ \E m \in M : SimpleModule_bitcode(m)
    \/ \E b \in B, result \in ResultRefs, body \in Bodies :
            if_result(b, result, body.one, body.zero)

Singles(B) ==
    \E b \in B, qubit \in QubitRefs :
        \/ h(b, qubit)
        \/ reset(b, qubit)
        \/ s(b, qubit)
        \/ s_adj(b, qubit)
        \/ t(b, qubit)
        \/ t_adj(b, qubit)
        \/ x(b, qubit)
        \/ y(b, qubit)
        \/ z(b, qubit)

Controlleds(B) ==
    \E b \in B, control \in QubitRefs, target \in QubitRefs :
        \/ cx(b, control, target)
        \/ cz(b, control, target)

Rotateds(B) ==
    \E b \in B, theta \in Angles, qubit \in QubitRefs :
        \/ rx(b, theta, qubit)
        \/ ry(b, theta, qubit)
        \/ rz(b, theta, qubit)

Measureds(B) ==
    \E b \in B, qubit \in QubitRefs, result \in ResultRefs :
        m_(b, qubit, result)

Appends(B) ==
    /\ CanAppend
    /\ \/ Singles(B)
       \/ Controlleds(B)
       \/ Rotateds(B)
       \/ Measureds(B)

\* One "bell" module and one builder on it; every method.
Next ==
    \/ SimpleModule_new(1, "bell", 2, 2)
    \/ BasicQisBuilder_new(1, 1)
    \/ Reads({1})
    \/ Stubs({1}, {1})
    \/ Appends({1})

Spec == Init /\ [][Next]_vars

\* One module of any layout within the bounds and one builder on it.
NextLayout ==
    \/ \E name \in Names, q \in 0..MaxQubits, r \in 0..MaxResults :
            SimpleModule_new(1, name, q, r)
    \/ BasicQisBuilder_new(1, 1)
    \/ Reads({1})
    \/ /\ CanAppend
       /\ \/ \E qubit \in QubitRefs : h(1, qubit)
          \/ \E control \in QubitRefs, target \in QubitRefs : cx(1, control, target)
          \/ \E theta \in Angles, qubit \in QubitRefs : rx(1, theta, qubit)
          \/ \E qubit \in QubitRefs, result \in ResultRefs : m_(1, qubit, result)

SpecLayout == Init /\ [][NextLayout]_vars

\* Two modules, the second as large as the first or larger, and two
\* builders, the second on either module.
NextShared ==
    \/ \E name \in Names : SimpleModule_new(1, name, 1, 1)
    \/ \E name \in Names, n \in {1, 2} : SimpleModule_new(2, name, n, n)
    \/ BasicQisBuilder_new(1, 1)
    \/ \E m \in ModIds : BasicQisBuilder_new(2, m)
    \/ Reads(ModIds)
    \/ /\ CanAppend
       /\ \/ \E b \in QisIds, qubit \in QubitRefs : h(b, qubit)
          \/ \E b \in QisIds, qubit \in QubitRefs, result \in ResultRefs :
                m_(b, qubit, result)

SpecShared == Init /\ [][NextShared]_vars

(* ----------------------------- properties ------------------------------ *)

Instructions(o) == heap[o].model.instructions

\* The successful append calls that reached object o, in call order.
CallsOn(o) ==
    LET On(e) == e.obj = o IN SelectSeq(log, On)

\* The successful append calls made through builders created from module m.
CallsFrom(m) ==
    LET From(e) == origin[e.qis] = m IN SelectSeq(log, From)

ExpectedQubits(n) == [k \in 1..n |-> [index |-> k - 1]]

ExpectedResults(n) == [k \in 1..n |-> [kind |-> "Result", index |-> k - 1]]

QubitIds == <<"qubit0", "qubit1", "qubit2", "qubit3">>

ResultIds == <<"result0", "result1", "result2", "result3">>

TagOf(op) ==
    CASE op = "cx" -> "Cx" [] op = "cz" -> "Cz" [] op = "h" -> "H"
      [] op = "m" -> "M" [] op = "reset" -> "Reset" [] op = "rx" -> "Rx"
      [] op = "ry" -> "Ry" [] op = "rz" -> "Rz" [] op = "s" -> "S"
      [] op = "s_adj" -> "SAdj" [] op = "t" -> "T" [] op = "t_adj" -> "TAdj"
      [] op = "x" -> "X" [] op = "y" -> "Y" [] op = "z" -> "Z"

\* The instruction a call is to record, with the identifiers written out.
ExpectedInst(call) ==
    CASE call.op \in {"cx", "cz"} ->
            [tag |-> TagOf(call.op),
             inst |-> [control |-> QubitIds[call.control.index + 1],
                       target |-> QubitIds[call.target.index + 1]]]
      [] call.op = "m" ->
            [tag |-> "M",
             inst |-> [qubit |-> QubitIds[call.qubit.index + 1],
                       target |-> ResultIds[call.result.index + 1]]]
      [] call.op \in {"rx", "ry", "rz"} ->
            [tag |-> TagOf(call.op),
             inst |-> [theta |-> call.theta,
                       qubit |-> QubitIds[call.qubit.index + 1]]]
      [] OTHER ->
            [tag |-> TagOf(call.op),
             inst |-> [qubit |-> QubitIds[call.qubit.index + 1]]]

ExpectedInsts(calls) == [k \in 1..Len(calls) |-> ExpectedInst(calls[k].call)]

\* The lines of a complete text of module m: header, declarations, one
\* line per instruction.
CompleteLines(m) ==
    1 + params[m].num_qubits + params[m].num_results
      + Len(Instructions(modules[m].builder))

SameOutcome(a, b) == a.kind = b.kind /\ a.exc = b.exc /\ a.value = b.value

\* C1: whatever was appended or read since construction, the qubits
\* accessor returns the references 0..q-1 in order and the results accessor
\* the references 0..r-1 in order, q and r being the constructor's
\* arguments (zero included).
C1_LayoutFixed ==
    /\ \A m \in DOMAIN modules :
        LET model == heap[modules[m].builder].model IN
        /\ qubits_value(model) = ExpectedQubits(params[m].num_qubits)
        /\ results_value(model) = ExpectedResults(params[m].num_results)
    /\ ret.op = "qubits" =>
        ret.kind = "Ok" /\ ret.value = ExpectedQubits(params[ret.self].num_qubits)
    /\ ret.op = "results" =>
        ret.kind = "Ok" /\ ret.value = ExpectedResults(params[ret.self].num_results)

\* A module of 2 qubits and no result, read after an append.
C1_Witness ==
    /\ ret.op = "qubits"
    /\ ret.value = <<[index |-> 0], [index |-> 1]>>
    /\ params[ret.self].num_results = 0
    /\ Len(log) > 0

C2_Matches ==
    \A o \in DOMAIN heap :
        /\ Len(Instructions(o)) = Len(CallsOn(o))
        /\ \A k \in 1..Len(Instructions(o)) :
            Instructions(o)[k].tag = TagOf(CallsOn(o)[k].call.op)

C2_Step ==
    \A o \in DOMAIN heap :
        LET old == heap[o].model.instructions
            new == heap'[o].model.instructions
        IN  \/ new = old
            \/ /\ Len(new) = Len(old) + 1
               /\ SubSeq(new, 1, Len(old)) = old
               /\ ret'.kind = "Ok"
               /\ ret'.op \notin {"qubits", "results", "ir", "new"}

\* C2: the instruction sequence is the list of the successful builder
\* calls in call order; every step leaves it alone or, for a successful
\* append, adds one entry at its end, so it only ever grows by suffixes.
C2_AppendOnly == [](C2_Matches) /\ [][C2_Step]_vars

\* Two different instructions were appended, then the text was read.
C2_Witness ==
    /\ ret.op = "ir"
    /\ Len(log) >= 2
    /\ Len(Instructions(log[1].obj)) = Len(log)
    /\ Instructions(log[1].obj)[1] # Instructions(log[1].obj)[2]

\* C3 (as claimed): an append whose qubit or result reference lies outside
\* the range of the model appended to does not succeed, so every recorded
\* call has its operands in range.
C3_OutOfRangeRejected ==
    \A k \in 1..Len(log) :
        LET model == heap[log[k].obj].model IN
        /\ \A qubit \in QubitsOf(log[k].call) : qubit.index < Len(model.qubits)
        /\ \A result \in ResultsOf(log[k].call) :
                result.index < model.registers[1].size

\* C5 (as claimed): if_result succeeds and leaves a conditional-branch
\* entry at the end of the sequence.
C5_BranchAppended ==
    ret.op = "if_result" =>
        /\ ret.kind = "Ok"
        /\ LET insts == Instructions(qis[ret.self].builder) IN
            Len(insts) > 0 /\ insts[Len(insts)].tag = "If"

\* C6 (as claimed): no call ends in a panic.
C6_NoRawFault == ret.kind # "Panic"

C7_Alike ==
    \A m1 \in DOMAIN lastIr, m2 \in DOMAIN lastIr :
        (/\ params[m1] = params[m2]
         /\ ExpectedInsts(CallsOn(modules[m1].builder))
                = ExpectedInsts(CallsOn(modules[m2].builder)))
            => SameOutcome(lastIr[m1], lastIr[m2])

C7_Whole ==
    \A m \in DOMAIN lastIr :
        \/ lastIr[m].kind = "Ok" /\ Len(lastIr[m].value) = CompleteLines(m)
        \/ lastIr[m].kind = "Err" /\ lastIr[m].value = "EmissionError"

C7_Repeat ==
    \A m \in DOMAIN lastIr \cap DOMAIN lastIr' : SameOutcome(lastIr'[m], lastIr[m])

IdsDistinct ==
    /\ \A a \in QubitRefs, b \in QubitRefs : a # b => Qubit_id(a) # Qubit_id(b)
    /\ \A a \in ResultRefs, b \in ResultRefs : a # b => Ref_id(a) # Ref_id(b)
    /\ \A a \in QubitRefs, b \in ResultRefs : Qubit_id(a) # Ref_id(b)

RanBell == Len(log) = Len(BellProgram) /\ BellPrefix(1) = Len(BellProgram)

\* C8: every recorded instruction has the variant of its call and, in the
\* call's roles, the identifiers "qubit"+i and "result"+j of the references
\* passed and the angle passed; different references give different
\* identifiers; the bell program records H, Cx, M, M and nothing else.
C8_Recorded ==
    /\ \A o \in DOMAIN heap :
        /\ Len(Instructions(o)) = Len(CallsOn(o))
        /\ \A k \in 1..Len(Instructions(o)) :
            Instructions(o)[k] = ExpectedInst(CallsOn(o)[k].call)
    /\ IdsDistinct
    /\ RanBell =>
        Instructions(log[1].obj) =
            <<[tag |-> "H", inst |-> [qubit |-> "qubit0"]],
              [tag |-> "Cx", inst |-> [control |-> "qubit0", target |-> "qubit1"]],
              [tag |-> "M", inst |-> [qubit |-> "qubit0", target |-> "result0"]],
              [tag |-> "M", inst |-> [qubit |-> "qubit1", target |-> "result1"]]>>

\* The bell program has run to its end.
C8_Witness == RanBell /\ Len(Instructions(log[1].obj)) = Len(BellProgram)

\* C9: a builder's handle is the handle of the module it was created from,
\* so the module's sequence, and the text ir() returns, hold the calls of
\* all its builders in global call order.
C9_Aliased ==
    /\ \A b \in DOMAIN qis : qis[b].builder = modules[origin[b]].builder
    /\ \A m \in DOMAIN modules :
        Instructions(modules[m].builder) = ExpectedInsts(CallsFrom(m))
    /\ \A m \in DOMAIN lastIr :
        lastIr[m].kind = "Ok" =>
            Len(lastIr[m].value) =
                1 + params[m].num_qubits + params[m].num_results + Len(CallsFrom(m))

\* Two builders of one module have each appended, and the text was read.
C9_Witness ==
    \E m \in DOMAIN lastIr :
        /\ lastIr[m].kind = "Ok"
        /\ \E j \in 1..Len(CallsFrom(m)), k \in 1..Len(CallsFrom(m)) :
            j < k /\ CallsFrom(m)[j].qis # CallsFrom(m)[k].qis

\* C10: between calls every Builder object is unborrowed, and no call
\* fails with a borrow error.
C10_Released ==
    /\ \A o \in DOMAIN flag : flag[o] = UNUSED
    /\ ret.exc \notin {"PyBorrowError", "PyBorrowMutError"}

\* ir() has failed, and the object it read is unborrowed.
C10_Witness ==
    /\ ret.op = "ir"
    /\ ret.kind = "Err"
    /\ flag[modules[ret.self].builder] = UNUSED

====
